---- MODULE Spec2Model ----
(***************************************************************************)
(* Conversation orchestration of the philosophical dialogue system         *)
(* (src/app.py): the process-wide tables active_conversations and          *)
(* client_sessions, the Socket.IO rooms, the event handlers and the        *)
(* background threads generate_opening / generate_continuation with the    *)
(* streaming generation generate_stream.                                   *)
(***************************************************************************)
EXTENDS Integers, Sequences, FiniteSets, TLC

(***************************************************************************)
(* Bounds of the model.                                                    *)
(***************************************************************************)
MaxClients == 2

MaxConversations == 2

MaxThreads == 2

\* text fragments one generation may stream
MaxFragments == 2

\* clients that view the conversation where viewers are followed
MaxViewers == 1

\* messages in the history a /generate request of dialogue-backend.py supplies
MaxSseHistory == 2

(***************************************************************************)
(* Program constants.                                                      *)
(***************************************************************************)
\* history[-1]['content'][:500] in create_prompt
PromptContextLen == 500

\* for i in range(2) in generate_continuation
ContinuationTurns == 2

\* num_exchanges = 2 in generate_dialogue.generate (dialogue-backend.py)
NumExchanges == 2

\* history[-4:] in create_philosopher_prompt (dialogue-backend.py)
SseContextTurns == 4

\* entry['content'][:500] in create_philosopher_prompt (dialogue-backend.py)
SseContextLen == 500

Clients == 1..MaxClients

ConvIds == 1..MaxConversations

\* a request that carries no conversation_id (data.get returns None)
None == 0

\* the text of the n-th fragment of a stream (the "response" value of a line)
Fragment(n) == IF n % 2 = 1 THEN "a" ELSE "b"

ThreadSlots == 1..MaxThreads

ValidConfig ==
    [philosopher1 |-> "socrates", author1 |-> "hemingway", model1 |-> "llama3.2:3b",
     philosopher2 |-> "kant", author2 |-> "woolf", model2 |-> "mistral:7b",
     topic |-> "free will"]

\* a request body without 'topic'
NoTopicConfig ==
    [philosopher1 |-> "socrates", author1 |-> "hemingway", model1 |-> "llama3.2:3b",
     philosopher2 |-> "kant", author2 |-> "woolf", model2 |-> "mistral:7b"]

Configs == {ValidConfig, NoTopicConfig}

\* the embedded persona tables, restricted to the keys the configs use
PHILOSOPHERS ==
    [k \in {"socrates", "kant"} |->
        IF k = "socrates"
        THEN [name |-> "Socrates", era |-> "Ancient Greek (470-399 BCE)"]
        ELSE [name |-> "Immanuel Kant", era |-> "18th century German (1724-1804)"]]

AUTHORS ==
    [k \in {"hemingway", "woolf"} |->
        IF k = "hemingway"
        THEN [name |-> "Ernest Hemingway"]
        ELSE [name |-> "Virginia Woolf"]]

VARIABLES
    active_conversations,   \* conversation id -> conversation record
    client_sessions,        \* the connected client ids
    rooms,                  \* conversation id -> the clients in its room
    joining,                \* client -> the room a running handle_join has entered
    joined_at,              \* client, thread -> events the thread had emitted when
                            \*   the client entered the thread's room
    snapshot,               \* client -> the last conversation_state it was sent
    reply,                  \* what the last step emitted to a calling client alone,
                            \*   or the handler that returned with nothing emitted
    threads,                \* the background threads, in spawn order
    clock,                  \* datetime.now(), as a logical time
    sse                     \* the /generate request of dialogue-backend.py, a
                            \*   program of its own: its progress and its stream

vars ==
    <<active_conversations, client_sessions, rooms, joining, joined_at, snapshot,
      reply, threads, clock, sse>>

(***************************************************************************)
(* Helpers                                                                 *)
(***************************************************************************)
Min(a, b) == IF a < b THEN a ELSE b

\* s[:n]
Take(s, n) == SubSeq(s, 1, Min(n, Len(s)))

Last(s) == s[Len(s)]

Has(d, k) == k \in DOMAIN d

Exists(cid) == cid \in DOMAIN active_conversations

Turn(speaker, content, timestamp) ==
    [speaker |-> speaker, content |-> content, timestamp |-> timestamp]

NoPrompt == [template |-> "none"]

UnboundLocalError == [template |-> "UnboundLocalError"]

NoSnapshot == [cid |-> None, history |-> <<>>, pos |-> [t \in ThreadSlots |-> 0]]

\* emit(event, payload) inside a handler: to the calling client alone
Reply(to, event, cid, history, config) ==
    [to |-> to, event |-> event, cid |-> cid, history |-> history, config |-> config]

NoConfig == [missing |-> "all"]

NoReply == Reply(0, "none", None, <<>>, NoConfig)

\* a handler called by client `to` that returns with no emit at all
Silent(to, handler, cid) == Reply(to, handler, cid, <<>>, NoConfig)

\* an event sent with socketio.emit(event, payload, room=room)
Event(type, room, speaker, content) ==
    [event |-> type, room |-> room, speaker |-> speaker, content |-> content]

(***************************************************************************)
(* DialogueGenerator.create_prompt: the response branch builds the prompt  *)
(* around the last turn's content cut to 500 characters; the opening       *)
(* branch formats {front_matter}, a local that only the response branch    *)
(* assigns, so it raises UnboundLocalError.                                *)
(***************************************************************************)
create_prompt(philosopher, author, topic, history, is_response) ==
    LET phil_name == IF Has(PHILOSOPHERS, philosopher)
                     THEN PHILOSOPHERS[philosopher].name ELSE philosopher
        phil_era  == IF Has(PHILOSOPHERS, philosopher)
                     THEN PHILOSOPHERS[philosopher].era ELSE ""
        auth_name == IF Has(AUTHORS, author) THEN AUTHORS[author].name ELSE author
    IN  IF is_response /\ history # <<>>
        THEN [template |-> "response", name |-> phil_name, era |-> phil_era,
              author |-> auth_name,
              last_content |-> Take(Last(history).content, PromptContextLen),
              topic |-> topic]
        ELSE UnboundLocalError

(***************************************************************************)
(* Threads                                                                 *)
(***************************************************************************)
\* emitted lists the events the thread has sent to rooms, in order: the
\* Socket.IO server delivers each to the clients in the room at that moment.
\* len0 and count0 record the history length and the exchange_count the
\* conversation had when the thread was started; returned lists what the
\* thread's generate_stream calls returned (the callers discard it); alone
\* tells whether the thread has run with no other thread of its conversation.
Thread(kind, cid, pc, len0, count0) ==
    [kind |-> kind, cid |-> cid, pc |-> pc, i |-> 0, speaker |-> 0,
     model |-> "", prompt |-> NoPrompt, full_content |-> <<>>, lines |-> 0,
     skipped |-> FALSE, emitted |-> <<>>, returned |-> <<>>, count |-> 0,
     len0 |-> len0, count0 |-> count0, alone |-> TRUE]

ThreadIds == 1..Len(threads)

\* how many events each thread has emitted so far
EmittedNow ==
    [t \in ThreadSlots |-> IF t \in ThreadIds THEN Len(threads[t].emitted) ELSE 0]

\* the events of thread t that client s has been delivered: those sent, since
\* s entered the room, to a room s is in; an emit that names no room goes to
\* every connected client
Received(s, t) ==
    IF t \in ThreadIds
    THEN SelectSeq(SubSeq(threads[t].emitted, joined_at[s][t] + 1,
                          Len(threads[t].emitted)),
                   LAMBDA e : IF e.room = None THEN s \in client_sessions
                                               ELSE s \in rooms[e.room])
    ELSE <<>>

Running(t) == threads[t].pc \notin {"done", "died"}

InGeneration(t) ==
    threads[t].pc \in {"gs_start", "gs_post", "gs_lines", "gs_store", "gs_complete"}

\* the threads of conversation cid that have not ended
RunningFor(cid) == {t \in ThreadIds : threads[t].cid = cid /\ Running(t)}

\* Thread(target=...).start(): a thread that starts while another one of the
\* same conversation runs ends the exclusive run of both
Spawn(kind, cid, pc, len0, count0) ==
    Append([t \in ThreadIds |->
               IF threads[t].cid = cid /\ Running(t)
               THEN [threads[t] EXCEPT !.alone = FALSE] ELSE threads[t]],
           [Thread(kind, cid, pc, len0, count0) EXCEPT !.alone = (RunningFor(cid) = {})])

\* no /generate request of dialogue-backend.py is being served
SseIdle ==
    [pc |-> "idle", data |-> NoConfig, history |-> <<>>, len0 |-> 0, i |-> 0,
     prompt |-> NoPrompt, stream |-> <<>>]

Init ==
    /\ active_conversations = <<>>
    /\ client_sessions = {}
    /\ rooms = [c \in ConvIds |-> {}]
    /\ joining = [s \in Clients |-> None]
    /\ joined_at = [s \in Clients |-> [t \in ThreadSlots |-> 0]]
    /\ snapshot = [s \in Clients |-> NoSnapshot]
    /\ reply = NoReply
    /\ threads = <<>>
    /\ sse = SseIdle
    /\ clock = 0

(***************************************************************************)
(* Event handlers                                                          *)
(***************************************************************************)
handle_connect(s) ==
    /\ s \notin client_sessions
    /\ client_sessions' = client_sessions \cup {s}
    /\ reply' = Reply(s, "connected", None, <<>>, NoConfig)
    /\ UNCHANGED <<active_conversations, rooms, joining, joined_at, snapshot,
                   threads, clock,
                   sse>>

\* a disconnect that drops the session and leaves the rooms as they are
handle_disconnect_KeepsRooms(s) ==
    /\ joining[s] = None
    /\ client_sessions' = client_sessions \ {s}
    /\ reply' = Silent(s, "disconnect", None)
    /\ UNCHANGED <<active_conversations, rooms, joining, joined_at, snapshot,
                   threads, clock,
                   sse>>

\* the handler drops the session; the Socket.IO server takes a disconnected
\* client out of every room, and what the client had received goes with it
handle_disconnect(s) ==
    /\ joining[s] = None
    /\ client_sessions' = client_sessions \ {s}
    /\ rooms' = [c \in ConvIds |-> rooms[c] \ {s}]
    /\ joined_at' = [joined_at EXCEPT ![s] = [t \in ThreadSlots |-> 0]]
    /\ snapshot' = [snapshot EXCEPT ![s] = NoSnapshot]
    /\ reply' = Silent(s, "disconnect", None)
    /\ UNCHANGED <<active_conversations, joining, threads, clock,
                   sse>>

\* join_room(conversation_id) made before the identifier is looked up
handle_join_Unchecked(s, conversation_id) ==
    /\ s \in client_sessions
    /\ joining[s] = None
    /\ rooms' = [c \in ConvIds |-> IF c = conversation_id THEN rooms[c] \cup {s}
                                                         ELSE rooms[c]]
    /\ reply' = Silent(s, "join_conversation", conversation_id)
    /\ UNCHANGED <<active_conversations, client_sessions, joining, joined_at,
                   snapshot, threads, clock,
                   sse>>

\* handle_join up to join_room(conversation_id): an unknown or missing id
\* ends the handler with nothing done
handle_join(s, conversation_id) ==
    /\ s \in client_sessions
    /\ joining[s] = None
    /\ IF conversation_id # None /\ Exists(conversation_id)
       THEN /\ reply' = NoReply
            /\ rooms' = [rooms EXCEPT ![conversation_id] = @ \cup {s}]
            /\ joined_at' =
                  IF s \in rooms[conversation_id] THEN joined_at
                  ELSE [joined_at EXCEPT ![s] =
                           [t \in ThreadSlots |->
                               IF t \in ThreadIds /\ threads[t].cid = conversation_id
                               THEN Len(threads[t].emitted) ELSE @[t]]]
            /\ joining' = [joining EXCEPT ![s] = conversation_id]
       ELSE /\ reply' = Silent(s, "join_conversation", conversation_id)
            /\ UNCHANGED <<rooms, joined_at, joining>>
    /\ UNCHANGED <<active_conversations, client_sessions, snapshot, threads, clock,
                   sse>>

\* handle_join from the read of the conversation to emit('conversation_state')
handle_join_emit(s) ==
    /\ joining[s] # None
    /\ snapshot' = [snapshot EXCEPT ![s] =
                       [cid |-> joining[s],
                        history |-> active_conversations[joining[s]].history,
                        pos |-> EmittedNow]]
    /\ joining' = [joining EXCEPT ![s] = None]
    /\ reply' = NoReply
    /\ UNCHANGED <<active_conversations, client_sessions, rooms, joined_at,
                   threads, clock,
                   sse>>

\* an identifier source that gives the same identifier again
uuid4_Repeating == CHOOSE c \in ConvIds : \A d \in ConvIds : c <= d

\* str(uuid.uuid4()): a random 122-bit identifier, taken here as one that no
\* conversation has yet (the least such, identifiers being opaque)
uuid4 ==
    CHOOSE c \in ConvIds \ DOMAIN active_conversations :
        \A d \in ConvIds \ DOMAIN active_conversations : c <= d

handle_start_dialogue(s, data) ==
    /\ s \in client_sessions
    /\ joining[s] = None
    /\ ConvIds \ DOMAIN active_conversations # {}
    /\ Len(threads) < MaxThreads
    /\ LET conversation_id == uuid4
       IN  /\ active_conversations' =
                  [c \in DOMAIN active_conversations \cup {conversation_id} |->
                      IF c = conversation_id
                      THEN [id |-> conversation_id, config |-> data, history |-> <<>>,
                            created_at |-> clock, exchange_count |-> 0]
                      ELSE active_conversations[c]]
           /\ reply' = Reply(s, "dialogue_started", conversation_id, <<>>, data)
           /\ threads' = Spawn("opening", conversation_id, "prompt1", 0, 0)
    /\ clock' = clock + 1
    /\ UNCHANGED <<client_sessions, rooms, joining, joined_at, snapshot,
                   sse>>

\* the handler starting its thread whether or not the conversation exists
handle_continue_dialogue_NoReturn(s, conversation_id) ==
    /\ s \in client_sessions
    /\ joining[s] = None
    /\ Len(threads) < MaxThreads
    /\ reply' = IF Exists(conversation_id) THEN NoReply
                ELSE Reply(s, "generation_error", conversation_id, <<>>, NoConfig)
    /\ threads' = Spawn("continuation", conversation_id, "speaker", 0, 0)
    /\ UNCHANGED <<active_conversations, client_sessions, rooms, joining, joined_at,
                   snapshot, clock,
                   sse>>

handle_continue_dialogue(s, conversation_id) ==
    /\ s \in client_sessions
    /\ joining[s] = None
    /\ IF ~Exists(conversation_id)
       THEN /\ reply' = Reply(s, "generation_error", conversation_id, <<>>, NoConfig)
            /\ UNCHANGED threads
       ELSE /\ Len(threads) < MaxThreads
            /\ threads' = Spawn("continuation", conversation_id, "speaker",
                                Len(active_conversations[conversation_id].history),
                                active_conversations[conversation_id].exchange_count)
            /\ reply' = NoReply
    /\ UNCHANGED <<active_conversations, client_sessions, rooms, joining, joined_at,
                   snapshot, clock,
                   sse>>

handle_get_history(s, conversation_id) ==
    /\ s \in client_sessions
    /\ joining[s] = None
    /\ IF Exists(conversation_id)
       THEN reply' = Reply(s, "conversation_history", conversation_id,
                           active_conversations[conversation_id].history,
                           active_conversations[conversation_id].config)
       ELSE reply' = Silent(s, "get_conversation_history", conversation_id)
    /\ UNCHANGED <<active_conversations, client_sessions, rooms, joining, joined_at,
                   snapshot, threads, clock,
                   sse>>

(***************************************************************************)
(* GET /health.  The answer of the backend to GET /api/tags is either an   *)
(* exception of requests.get, or a body: one that is not JSON, JSON that   *)
(* is not an object, or an object with or without "models".                *)
(***************************************************************************)
TagsAnswers ==
    { [raises |-> TRUE, json |-> FALSE, object |-> FALSE, body |-> <<>>],
      [raises |-> FALSE, json |-> FALSE, object |-> FALSE, body |-> <<>>],
      [raises |-> FALSE, json |-> TRUE, object |-> FALSE, body |-> <<>>],
      [raises |-> FALSE, json |-> TRUE, object |-> TRUE,
       body |-> [error |-> "no models"]],
      [raises |-> FALSE, json |-> TRUE, object |-> TRUE,
       body |-> [models |-> <<[name |-> "llama3.2:3b"], [name |-> "mistral:7b"]>>]],
      [raises |-> FALSE, json |-> TRUE, object |-> TRUE,
       body |-> [models |-> <<[name |-> "llama3.2:3b"], [size |-> "7b"]>>]] }

\* the body of the try block raises: requests.get, response.json(), .get on
\* what is not a dict, or m['name'] on a model without a name
HealthTryRaises(answer) ==
    \/ answer.raises
    \/ ~answer.json
    \/ ~answer.object
    \/ /\ Has(answer.body, "models")
       /\ \E k \in 1..Len(answer.body.models) : ~Has(answer.body.models[k], "name")

Unhealthy ==
    [status |-> "unhealthy", ollama |-> "disconnected",
     conversations |-> Cardinality(DOMAIN active_conversations),
     clients |-> Cardinality(client_sessions), models |-> <<>>, code |-> 500]

Healthy(answer) ==
    [status |-> "healthy", ollama |-> "connected",
     conversations |-> Cardinality(DOMAIN active_conversations),
     clients |-> Cardinality(client_sessions),
     models |-> IF Has(answer.body, "models")
                THEN [k \in 1..Len(answer.body.models) |-> answer.body.models[k].name]
                ELSE <<>>,
     code |-> 200]

\* an exception that leaves the view function
Raised == [status |-> "raised"]

\* the view with  except requests.RequestException:  in place of  except:
health_check_result_NarrowExcept(answer) ==
    IF answer.raises THEN Unhealthy
    ELSE IF HealthTryRaises(answer) THEN Raised
    ELSE Healthy(answer)

\* what health_check returns
health_check_result(answer) ==
    IF HealthTryRaises(answer) THEN Unhealthy ELSE Healthy(answer)

health_check(answer) ==
    /\ reply' = Reply(0, "health", None, <<>>, health_check_result(answer))
    /\ UNCHANGED <<active_conversations, client_sessions, rooms, joining, joined_at,
                   snapshot, threads, clock,
                   sse>>

(***************************************************************************)
(* DialogueGenerator.generate_stream, one step at a time.  A thread is in  *)
(* it from pc "gs_start" until it returns to "ret".                        *)
(***************************************************************************)
SetThread(t, th) == [threads EXCEPT ![t] = th]

\* socketio.emit(type, payload, room=room) by a thread
Emit(th, type, room, speaker, content) ==
    [th EXCEPT !.emitted = Append(@, Event(type, room, speaker, content))]

\* what generate_stream returned: the full content, or None
Returned(is_none, content) == [none |-> is_none, content |-> content]

\* the return that also sets the caller's loop counter back
Return_Restarting(th, value) ==
    [th EXCEPT !.pc = "ret", !.returned = Append(@, value), !.model = "",
               !.prompt = NoPrompt, !.speaker = 0, !.full_content = <<>>,
               !.lines = 0, !.skipped = FALSE, !.i = 0]

\* the return to the caller: the callee's locals are gone
Return(th, value) ==
    [th EXCEPT !.pc = "ret", !.returned = Append(@, value), !.model = "",
               !.prompt = NoPrompt, !.speaker = 0, !.full_content = <<>>,
               !.lines = 0, !.skipped = FALSE]

\* the call generator.generate_stream(model, prompt, conversation_id, speaker, None)
CallGenerateStream(th, model, prompt, speaker) ==
    [th EXCEPT !.pc = "gs_start", !.model = model, !.prompt = prompt,
               !.speaker = speaker, !.full_content = <<>>, !.lines = 0,
               !.skipped = FALSE]

\* the frame of a step that changes one thread
ThreadStep(t, th) ==
    /\ threads' = SetThread(t, th)
    /\ reply' = NoReply
    /\ UNCHANGED <<active_conversations, client_sessions, rooms, joining, joined_at,
                   snapshot, clock,
                   sse>>

\* the except branch storing what had been accumulated before it reports
gs_except_StoresPartial(t, error) ==
    /\ threads' = SetThread(t, Return(Emit(threads[t], "generation_error",
                                           threads[t].cid, 0, <<error>>),
                                      Returned(TRUE, <<>>)))
    /\ active_conversations' =
          [active_conversations EXCEPT ![threads[t].cid].history =
              Append(@, Turn(threads[t].speaker, threads[t].full_content, clock))]
    /\ reply' = NoReply
    /\ UNCHANGED <<client_sessions, rooms, joining, joined_at, snapshot, clock,
                   sse>>

\* the except branch returning None with no event sent
gs_except_Silent(t, error) ==
    ThreadStep(t, Return(threads[t], Returned(TRUE, <<>>)))

\* the except branch with an emit that names no room
gs_except_NoRoom(t, error) ==
    ThreadStep(t, Return(Emit(threads[t], "generation_error", None, 0, <<error>>),
                         Returned(TRUE, <<>>)))

\* except Exception as e: emit generation_error to the room and return None
gs_except(t, error) ==
    ThreadStep(t, Return(Emit(threads[t], "generation_error", threads[t].cid, 0,
                              <<error>>),
                         Returned(TRUE, <<>>)))

\* generate_stream going to the request without announcing the generation
gs_start_Unannounced(t) ==
    /\ threads[t].pc = "gs_start"
    /\ ThreadStep(t, [threads[t] EXCEPT !.pc = "gs_post"])

\* socketio.emit('generation_start', ...)
gs_start(t) ==
    /\ threads[t].pc = "gs_start"
    /\ ThreadStep(t, [Emit(threads[t], "generation_start", threads[t].cid,
                           threads[t].speaker, <<>>)
                      EXCEPT !.pc = "gs_post"])

\* requests.post(.../api/generate, stream=True): the backend answers (with any
\* status: the code does not look at it) or the request raises
gs_post(t) ==
    /\ threads[t].pc = "gs_post"
    /\ \/ ThreadStep(t, [threads[t] EXCEPT !.pc = "gs_lines", !.full_content = <<>>])
       \/ gs_except(t, "ConnectionError")

\* a fragment that is emitted and left out of full_content
gs_chunk_NotAccumulated(t, content) ==
    ThreadStep(t, [Emit(threads[t], "message_chunk", threads[t].cid,
                        threads[t].speaker, <<content>>)
                   EXCEPT !.lines = @ + 1])

\* a line {"response": content}: accumulate it and emit message_chunk
gs_chunk(t, content) ==
    ThreadStep(t, [Emit(threads[t], "message_chunk", threads[t].cid,
                        threads[t].speaker, <<content>>)
                   EXCEPT !.full_content = Append(@, content), !.lines = @ + 1])

\* one turn of  for line in response.iter_lines():  a fragment, a line that is
\* skipped (not JSON, or JSON without "response": the body of an error answer
\* is such a line; skipped records that one was met), a read that raises, or
\* the end of the stream.  An empty line changes nothing at all.
gs_lines(t) ==
    /\ threads[t].pc = "gs_lines"
    /\ \/ /\ threads[t].lines < MaxFragments
          /\ gs_chunk(t, Fragment(threads[t].lines + 1))
       \/ /\ ~threads[t].skipped
          /\ ThreadStep(t, [threads[t] EXCEPT !.skipped = TRUE])
       \/ gs_except(t, "ChunkedEncodingError")
       \/ ThreadStep(t, [threads[t] EXCEPT !.pc = "gs_store"])

\* the store appending the turn to one history shared by all conversations
gs_store_Shared(t) ==
    /\ threads[t].pc = "gs_store"
    /\ active_conversations' =
          [c \in DOMAIN active_conversations |->
              [active_conversations[c] EXCEPT !.history =
                  Append(@, Turn(threads[t].speaker, threads[t].full_content, clock))]]
    /\ clock' = clock + 1
    /\ threads' = SetThread(t, [threads[t] EXCEPT !.pc = "gs_complete"])
    /\ reply' = NoReply
    /\ UNCHANGED <<client_sessions, rooms, joining, joined_at, snapshot,
                   sse>>

\* the store made only for content that is not empty
gs_store_SkipsEmpty(t) ==
    /\ threads[t].pc = "gs_store"
    /\ IF Exists(threads[t].cid) /\ threads[t].full_content # <<>>
       THEN /\ active_conversations' =
                  [active_conversations EXCEPT ![threads[t].cid].history =
                      Append(@, Turn(threads[t].speaker, threads[t].full_content, clock))]
            /\ clock' = clock + 1
       ELSE UNCHANGED <<active_conversations, clock>>
    /\ threads' = SetThread(t, [threads[t] EXCEPT !.pc = "gs_complete"])
    /\ reply' = NoReply
    /\ UNCHANGED <<client_sessions, rooms, joining, joined_at, snapshot,
                   sse>>

\* the store left out, the announcement of the turn made without it
gs_store_Unstored(t) ==
    /\ threads[t].pc = "gs_store"
    /\ threads' = SetThread(t, [threads[t] EXCEPT !.pc = "gs_complete"])
    /\ reply' = NoReply
    /\ UNCHANGED <<active_conversations, client_sessions, rooms, joining, joined_at,
                   snapshot, clock,
                   sse>>

\* the store putting the new turn in front of the history
gs_store_Prepends(t) ==
    /\ threads[t].pc = "gs_store"
    /\ active_conversations' =
          [active_conversations EXCEPT ![threads[t].cid].history =
              <<Turn(threads[t].speaker, threads[t].full_content, clock)>> \o @]
    /\ clock' = clock + 1
    /\ threads' = SetThread(t, [threads[t] EXCEPT !.pc = "gs_complete"])
    /\ reply' = NoReply
    /\ UNCHANGED <<client_sessions, rooms, joining, joined_at, snapshot,
                   sse>>

\* if conversation_id in active_conversations: history.append({...})
gs_store(t) ==
    /\ threads[t].pc = "gs_store"
    /\ IF Exists(threads[t].cid)
       THEN /\ active_conversations' =
                  [active_conversations EXCEPT ![threads[t].cid].history =
                      Append(@, Turn(threads[t].speaker, threads[t].full_content, clock))]
            /\ clock' = clock + 1
       ELSE UNCHANGED <<active_conversations, clock>>
    /\ threads' = SetThread(t, [threads[t] EXCEPT !.pc = "gs_complete"])
    /\ reply' = NoReply
    /\ UNCHANGED <<client_sessions, rooms, joining, joined_at, snapshot,
                   sse>>

\* socketio.emit('generation_complete', ...); return full_content
gs_complete(t) ==
    /\ threads[t].pc = "gs_complete"
    /\ ThreadStep(t, Return(Emit(threads[t], "generation_complete", threads[t].cid,
                                 threads[t].speaker, threads[t].full_content),
                            Returned(FALSE, threads[t].full_content)))

generate_stream(t) ==
    gs_start(t) \/ gs_post(t) \/ gs_lines(t) \/ gs_store(t) \/ gs_complete(t)

(***************************************************************************)
(* The background threads.  An exception that leaves the thread's target   *)
(* ends the thread ("died"): nothing catches it.                           *)
(***************************************************************************)
Died(t) ==
    SetThread(t, [threads[t] EXCEPT !.pc = "died", !.model = "", !.speaker = 0])

\* the thread ended by the exception that create_prompt raised
DiedComposing(t, exception) ==
    SetThread(t, [threads[t] EXCEPT !.pc = "died", !.model = "", !.speaker = 0,
                                    !.prompt = exception])

\* handle_start_dialogue.generate_opening; data is the request body, the
\* object stored as the conversation's config
generate_opening(t) ==
    /\ threads[t].kind = "opening"
    /\ threads[t].pc \in {"prompt1", "ret"}
    /\ LET th == threads[t]
           data == active_conversations[th.cid].config
           history == active_conversations[th.cid].history
           prompt1 == create_prompt(data.philosopher1, data.author1, data.topic,
                                    <<>>, FALSE)
           prompt2 == create_prompt(data.philosopher2, data.author2, data.topic,
                                    history, TRUE)
       IN  CASE th.pc = "prompt1" ->
                  /\ threads' =
                        IF ~(Has(data, "philosopher1") /\ Has(data, "author1")
                                /\ Has(data, "topic"))
                        THEN Died(t)
                        ELSE IF prompt1 = UnboundLocalError
                        THEN DiedComposing(t, prompt1)
                        ELSE IF ~Has(data, "model1")
                        THEN Died(t)
                        ELSE SetThread(t, CallGenerateStream(th, data.model1, prompt1, 1))
                  /\ UNCHANGED active_conversations
            [] th.pc = "ret" /\ Len(th.returned) = 1 ->
                  \* time.sleep(2), then the second speaker's response
                  /\ threads' =
                        IF ~(Has(data, "philosopher2") /\ Has(data, "author2")
                                /\ Has(data, "topic"))
                        THEN Died(t)
                        ELSE IF prompt2 = UnboundLocalError
                        THEN DiedComposing(t, prompt2)
                        ELSE IF ~Has(data, "model2")
                        THEN Died(t)
                        ELSE SetThread(t, CallGenerateStream(th, data.model2, prompt2, 2))
                  /\ UNCHANGED active_conversations
            [] th.pc = "ret" /\ Len(th.returned) = 2 ->
                  /\ active_conversations' =
                        [active_conversations EXCEPT ![th.cid].exchange_count = 1]
                  /\ threads' = SetThread(t, [th EXCEPT !.pc = "done"])
    /\ reply' = NoReply
    /\ UNCHANGED <<client_sessions, rooms, joining, joined_at, snapshot, clock,
                   sse>>

\* the parity rule with the speakers exchanged
NextSpeaker_Swapped(history) == IF Len(history) % 2 = 0 THEN 2 ELSE 1

\* speaker = 1 if len(history) % 2 == 0 else 2
NextSpeaker(history) == IF Len(history) % 2 = 0 THEN 1 ELSE 2

\* the increment made once per generated turn
ExchangeCountAfter_PerTurn(count) == count + ContinuationTurns

\* active_conversations[conversation_id]['exchange_count'] += 1, after the loop
ExchangeCountAfter(count) == count + 1

\* handle_continue_dialogue.generate_continuation; config and history are the
\* conversation's own objects, so history is always the current list
generate_continuation(t) ==
    /\ threads[t].kind = "continuation"
    /\ threads[t].pc \in {"speaker", "prompt", "ret", "count_read", "count_write"}
    /\ LET th == threads[t]
           config == active_conversations[th.cid].config
           history == active_conversations[th.cid].history
           speaker == NextSpeaker(history)
           philosopher == IF th.speaker = 1 THEN config.philosopher1
                                            ELSE config.philosopher2
           author == IF th.speaker = 1 THEN config.author1 ELSE config.author2
           prompt == create_prompt(philosopher, author, config.topic, history, TRUE)
       IN  CASE th.pc = "speaker" ->
                  /\ threads' =
                        IF \A k \in (IF speaker = 1
                                     THEN {"philosopher1", "author1", "model1"}
                                     ELSE {"philosopher2", "author2", "model2"}) :
                                 Has(config, k)
                        THEN SetThread(t, [th EXCEPT
                                 !.pc = "prompt", !.speaker = speaker,
                                 !.model = IF speaker = 1 THEN config.model1
                                                          ELSE config.model2])
                        ELSE Died(t)
                  /\ UNCHANGED active_conversations
            [] th.pc = "prompt" ->
                  /\ threads' =
                        IF ~Has(config, "topic") THEN Died(t)
                        ELSE IF prompt = UnboundLocalError
                        THEN DiedComposing(t, prompt)
                        ELSE SetThread(t, CallGenerateStream(th, th.model, prompt,
                                                             th.speaker))
                  /\ UNCHANGED active_conversations
            [] th.pc = "ret" ->
                  \* history is read again; time.sleep(2) after the first turn
                  /\ threads' =
                        IF th.i + 1 < ContinuationTurns
                        THEN SetThread(t, [th EXCEPT !.i = @ + 1, !.pc = "speaker"])
                        ELSE SetThread(t, [th EXCEPT !.pc = "count_read"])
                  /\ UNCHANGED active_conversations
            [] th.pc = "count_read" ->
                  \* exchange_count += 1 reads the counter ...
                  /\ threads' = SetThread(t, [th EXCEPT
                                    !.count = active_conversations[th.cid].exchange_count,
                                    !.pc = "count_write"])
                  /\ UNCHANGED active_conversations
            [] th.pc = "count_write" ->
                  \* ... and stores the sum
                  /\ active_conversations' =
                        [active_conversations EXCEPT
                            ![th.cid].exchange_count = ExchangeCountAfter(th.count)]
                  /\ threads' = SetThread(t, [th EXCEPT !.pc = "done"])
    /\ reply' = NoReply
    /\ UNCHANGED <<client_sessions, rooms, joining, joined_at, snapshot, clock,
                   sse>>

(***************************************************************************)
(* dialogue-backend.py, the SSE variant: POST /generate streams the        *)
(* messages of one round.  data is the request body, history the list it   *)
(* carries (messages of earlier rounds), stream the events yielded so far. *)
(***************************************************************************)
\* the message object that is yielded and appended to the history
Message(philosopher, author, pairing, content) ==
    [type |-> "message", philosopher |-> philosopher, author |-> author,
     pairing |-> pairing, content |-> content]

ErrorEvent(message) == [type |-> "error", message |-> message]

\* a message of an earlier round as the client sends it back
SseEntry(pairing) ==
    IF pairing = 1 THEN Message("socrates", "hemingway", 1, <<"a">>)
                   ELSE Message("kant", "woolf", 2, <<"b">>)

\* the histories a request may carry
SseHistories ==
    UNION {[1..n -> {SseEntry(1), SseEntry(2)}] : n \in 0..MaxSseHistory}

\* what ollama.Client().generate answers: the text, as its paragraphs (an
\* empty string is a blank one), or an exception
OllamaAnswers ==
    { [raises |-> TRUE, text |-> <<>>],
      [raises |-> FALSE, text |-> <<"">>],
      [raises |-> FALSE, text |-> <<"a">>],
      [raises |-> FALSE, text |-> <<"a", "", "b">>] }

\* DialogueGenerator.create_philosopher_prompt; other_philosopher is "" for
\* Python's None
create_philosopher_prompt(philosopher, author, topic, history, is_response, other_philosopher) ==
    [philosopher |-> philosopher, author |-> author, topic |-> topic,
     context |->
        LET from == IF Len(history) > SseContextTurns
                    THEN Len(history) - SseContextTurns + 1 ELSE 1
        IN  [k \in 1..(Len(history) - from + 1) |->
                [philosopher |-> history[from + k - 1].philosopher,
                 content |-> Take(history[from + k - 1].content, SseContextLen)]],
     instruction |-> IF is_response /\ other_philosopher # ""
                     THEN "respond" ELSE "begin",
     other |-> other_philosopher]

\* the text cut into paragraphs, the blank ones dropped, each wrapped in <p>
HtmlContent(text) ==
    LET kept == SelectSeq(text, LAMBDA paragraph : paragraph # "")
    IN  [k \in 1..Len(kept) |-> <<"<p>", kept[k], "</p>">>]

\* if (len(history) + i) % 2 == 0: pairing 1 speaks, else pairing 2
SsePairing(history, i) == IF (Len(history) + i) % 2 = 0 THEN 1 ELSE 2

SseFail_Continues(state, message) ==
    [state EXCEPT !.stream = Append(@, ErrorEvent(message)), !.i = @ + 1]

\* except Exception as e: yield the error event; the generator ends
SseFail(state, message) ==
    [state EXCEPT !.stream = Append(@, ErrorEvent(message)), !.pc = "done"]

\* the request arrives: data = request.json; history = data.get('history', [])
generate_dialogue(data, history) ==
    /\ sse.pc = "idle"
    /\ sse' = [pc |-> "loop", data |-> data, history |-> history,
               len0 |-> Len(history), i |-> 0, prompt |-> NoPrompt,
               stream |-> <<>>]
    /\ UNCHANGED <<active_conversations, client_sessions, rooms, joining, joined_at,
                   snapshot, reply, threads, clock>>

\* one turn of  for i in range(num_exchanges)
generate(answer) ==
    /\ sse.pc = "loop"
    /\ LET data == sse.data
           history == sse.history
           pairing == SsePairing(history, sse.i)
           mine == IF pairing = 1 THEN {"philosopher1", "author1", "model1"}
                                  ELSE {"philosopher2", "author2", "model2"}
           others == IF pairing = 1
                     THEN (IF Len(history) > 0 THEN {"philosopher2"} ELSE {})
                     ELSE {"philosopher1"}
           philosopher == IF pairing = 1 THEN data.philosopher1 ELSE data.philosopher2
           author == IF pairing = 1 THEN data.author1 ELSE data.author2
           other_philosopher ==
               IF pairing = 2 THEN data.philosopher1
               ELSE IF Len(history) > 0 THEN data.philosopher2 ELSE ""
           prompt == create_philosopher_prompt(philosopher, author, data.topic,
                                               history, Len(history) > 0,
                                               other_philosopher)
           message == Message(philosopher, author, pairing, HtmlContent(answer.text))
       IN  sse' =
              IF sse.i >= NumExchanges
              THEN [sse EXCEPT !.pc = "done"]
              ELSE IF \E k \in mine \cup others \cup {"topic"} : ~Has(data, k)
              THEN SseFail(sse, "KeyError")
              ELSE IF answer.raises
              THEN SseFail([sse EXCEPT !.prompt = prompt], "ResponseError")
              ELSE [sse EXCEPT !.prompt = prompt,
                               !.stream = Append(@, message),
                               !.history = Append(@, message),
                               !.i = @ + 1]
    /\ UNCHANGED <<active_conversations, client_sessions, rooms, joining, joined_at,
                   snapshot, reply, threads, clock>>

\* the response has been sent whole; the next request may come
SseEnd ==
    /\ sse.pc = "done"
    /\ sse' = SseIdle
    /\ UNCHANGED <<active_conversations, client_sessions, rooms, joining, joined_at,
                   snapshot, reply, threads, clock>>

(***************************************************************************)
(* Specifications                                                          *)
(***************************************************************************)
Handlers ==
    \/ \E s \in Clients : handle_connect(s)
    \/ \E s \in Clients : handle_disconnect(s)
    \/ \E s \in Clients : \E c \in ConvIds \cup {None} : handle_join(s, c)
    \/ \E s \in Clients : handle_join_emit(s)
    \/ \E s \in Clients : \E data \in Configs : handle_start_dialogue(s, data)
    \/ \E s \in Clients : \E c \in ConvIds \cup {None} : handle_continue_dialogue(s, c)
    \/ \E s \in Clients : \E c \in ConvIds \cup {None} : handle_get_history(s, c)
    \/ \E answer \in TagsAnswers : health_check(answer)

\* The program as it starts.  No thread reaches generate_stream: the first
\* prompt of every conversation is composed on an empty history, where
\* create_prompt raises.
Next ==
    \/ Handlers
    \/ \E t \in ThreadIds : generate_opening(t)
    \/ \E t \in ThreadIds : generate_continuation(t)

Spec == Init /\ [][Next]_vars

\* A conversation that already holds one completed round, the state that
\* start_dialogue is meant to leave behind: two stored turns, exchange_count 1.
OngoingConversation ==
    [id |-> 1, config |-> ValidConfig,
     history |-> <<Turn(1, <<"a">>, 1), Turn(2, <<"b">>, 2)>>,
     created_at |-> 0, exchange_count |-> 1]

InitOngoing ==
    /\ active_conversations = (1 :> OngoingConversation)
    /\ client_sessions = Clients
    /\ rooms = [c \in ConvIds |-> {}]
    /\ joining = [s \in Clients |-> None]
    /\ joined_at = [s \in Clients |-> [t \in ThreadSlots |-> 0]]
    /\ snapshot = [s \in Clients |-> NoSnapshot]
    /\ reply = NoReply
    /\ threads = <<>>
    /\ sse = SseIdle
    /\ clock = 3

Threads ==
    \/ \E t \in ThreadIds : generate_continuation(t)
    \/ \E t \in ThreadIds : generate_stream(t)

\* Callers that wait: continue_dialogue is called on the ongoing conversation
\* only while no thread of it runs
NextSerial ==
    \/ \E s \in Clients : \E c \in DOMAIN active_conversations :
          /\ RunningFor(c) = {}
          /\ handle_continue_dialogue(s, c)
    \/ Threads

SpecSerial == InitOngoing /\ [][NextSerial]_vars

\* Callers that do not wait: continue_dialogue at any moment
NextOngoing ==
    \/ \E s \in Clients : \E c \in DOMAIN active_conversations :
          handle_continue_dialogue(s, c)
    \/ Threads

SpecOngoing == InitOngoing /\ [][NextOngoing]_vars

\* Viewers that come and go, in the room of either of two conversations, while
\* one continue_dialogue call runs on the first
Viewers == 1..MaxViewers

\* a second conversation in the same state, with no call running
OtherConversation == [OngoingConversation EXCEPT !.id = 2]

InitViewers ==
    /\ active_conversations = (1 :> OngoingConversation @@ 2 :> OtherConversation)
    /\ client_sessions = {}
    /\ rooms = [c \in ConvIds |-> {}]
    /\ joining = [s \in Clients |-> None]
    /\ joined_at = [s \in Clients |-> [t \in ThreadSlots |-> 0]]
    /\ snapshot = [s \in Clients |-> NoSnapshot]
    /\ reply = NoReply
    /\ threads = <<Thread("continuation", 1, "speaker", 2, 1)>>
    /\ sse = SseIdle
    /\ clock = 3

NextViewers ==
    \/ \E s \in Viewers : handle_connect(s)
    \/ \E s \in Viewers : handle_disconnect(s)
    \/ \E s \in Viewers : \E c \in ConvIds \cup {None} : handle_join(s, c)
    \/ \E s \in Viewers : handle_join_emit(s)
    \/ \E s \in Viewers : \E c \in ConvIds \cup {None} : handle_get_history(s, c)
    \/ Threads

SpecViewers == InitViewers /\ [][NextViewers]_vars

\* Two conversations, each with one continue_dialogue call running
InitTwo ==
    /\ active_conversations = (1 :> OngoingConversation @@ 2 :> OtherConversation)
    /\ client_sessions = {}
    /\ rooms = [c \in ConvIds |-> {}]
    /\ joining = [s \in Clients |-> None]
    /\ joined_at = [s \in Clients |-> [t \in ThreadSlots |-> 0]]
    /\ snapshot = [s \in Clients |-> NoSnapshot]
    /\ reply = NoReply
    /\ threads = <<Thread("continuation", 1, "speaker", 2, 1),
                   Thread("continuation", 2, "speaker", 2, 1)>>
    /\ sse = SseIdle
    /\ clock = 3

SpecTwo == InitTwo /\ [][Threads]_vars

\* the next step of the thread in slot t, once it has been started
ThreadRun(t) ==
    /\ t \in ThreadIds
    /\ (generate_opening(t) \/ generate_continuation(t) \/ generate_stream(t))

\* A scheduler that is fair to every thread: a started thread that can take
\* a step takes one.  Every wait of a thread is bounded (the sleeps) or is for
\* the backend, whose streams are finite: at most MaxFragments fragments.
Fairness == \A t \in ThreadSlots : WF_vars(ThreadRun(t))

\* Two continue_dialogue calls made one right after the other on the ongoing
\* conversation: both threads started, neither has taken a step
InitOverlapping ==
    /\ active_conversations = (1 :> OngoingConversation)
    /\ client_sessions = Clients
    /\ rooms = [c \in ConvIds |-> {}]
    /\ joining = [s \in Clients |-> None]
    /\ joined_at = [s \in Clients |-> [t \in ThreadSlots |-> 0]]
    /\ snapshot = [s \in Clients |-> NoSnapshot]
    /\ reply = NoReply
    /\ threads = <<[Thread("continuation", 1, "speaker", 2, 1) EXCEPT !.alone = FALSE],
                   [Thread("continuation", 1, "speaker", 2, 1) EXCEPT !.alone = FALSE]>>
    /\ sse = SseIdle
    /\ clock = 3

FairOverlapping == InitOverlapping /\ [][Threads]_vars /\ Fairness

\* start_dialogue and continue_dialogue called at any moment on the server
\* that holds the ongoing conversation, their threads run by a fair scheduler
NextCalls ==
    \/ \E s \in Clients : \E data \in Configs : handle_start_dialogue(s, data)
    \/ \E s \in Clients : \E c \in DOMAIN active_conversations :
          handle_continue_dialogue(s, c)
    \/ \E t \in ThreadIds : generate_opening(t)
    \/ Threads

FairCalls == InitOngoing /\ [][NextCalls]_vars /\ Fairness

\* dialogue-backend.py on its own: one /generate request after the other
NextSSE ==
    \/ \E data \in Configs : \E history \in SseHistories :
          generate_dialogue(data, history)
    \/ \E answer \in OllamaAnswers : generate(answer)
    \/ SseEnd

SpecSSE == Init /\ [][NextSSE]_vars

(***************************************************************************)
(* Properties                                                              *)
(***************************************************************************)
Speakers(history) == [i \in 1..Len(history) |-> history[i].speaker]

History(cid) == active_conversations[cid].history

\* the generations of thread t that returned their content
Successes(t) ==
    Cardinality({k \in 1..Len(threads[t].returned) : ~threads[t].returned[k].none})

\* the generations of thread t that returned None
Failures(t) ==
    Cardinality({k \in 1..Len(threads[t].returned) : threads[t].returned[k].none})

\* thread t has emitted generation_start and not yet the matching
\* generation_complete or generation_error
Outstanding(t) ==
    threads[t].pc \in {"gs_post", "gs_lines", "gs_store", "gs_complete"}

C3_StartStoresOneRound ==
    \A t \in ThreadIds :
        (/\ threads[t].kind = "opening"
         /\ ~Running(t)
         /\ active_conversations[threads[t].cid].config = ValidConfig
         /\ Failures(t) = 0
         /\ \A u \in ThreadIds : threads[u].cid = threads[t].cid => u = t)
        => /\ Speakers(History(threads[t].cid)) = <<1, 2>>
           /\ active_conversations[threads[t].cid].exchange_count = 1

\* the last continue_dialogue call, ended, ran alone with both generations
\* returning their content
EndedAloneOk(t) ==
    /\ t = Len(threads)
    /\ threads[t].kind = "continuation"
    /\ threads[t].pc = "done"
    /\ threads[t].alone
    /\ Successes(t) = ContinuationTurns

Terminal(e) == e.event \in {"generation_complete", "generation_error"}

CountEvents(log, type) == Cardinality({k \in 1..Len(log) : log[k].event = type})

\* what the generations of thread t that succeeded returned, in order
ReturnedContents(t) == SelectSeq(threads[t].returned, LAMBDA r : ~r.none)

Viewing(s, t) ==
    /\ snapshot[s].cid = threads[t].cid
    /\ joining[s] = None
    /\ s \in rooms[threads[t].cid]

\* the position in the history of the turn that the k-th event of thread t,
\* a generation_complete, announces
TurnOfComplete(t, k) ==
    threads[t].len0
        + CountEvents(SubSeq(threads[t].emitted, 1, k), "generation_complete")

C8_ContinueUnknown ==
    [][\A s \in Clients : \A c \in ConvIds \cup {None} :
          (~Exists(c) /\ handle_continue_dialogue(s, c))
          => /\ reply' = Reply(s, "generation_error", c, <<>>, NoConfig)
             /\ threads' = threads
             /\ active_conversations' = active_conversations
             /\ rooms' = rooms]_vars

\* the error reported while a conversation exists and a thread has run
C8_Witness ==
    /\ reply.event = "generation_error"
    /\ ~Exists(reply.cid)
    /\ reply.to \in client_sessions
    /\ active_conversations # <<>>
    /\ threads # <<>>

\* C11: join_conversation with a missing or unknown conversation id creates
\* no conversation, adds the client to no room and sends it no snapshot:
\* active_conversations, the rooms and every client's snapshot stay as they
\* were, and no snapshot is left to be sent.
C11_JoinUnknown ==
    [][\A s \in Clients : \A c \in ConvIds \cup {None} :
          ((c = None \/ ~Exists(c)) /\ handle_join(s, c))
          => /\ active_conversations' = active_conversations
             /\ rooms' = rooms
             /\ snapshot' = snapshot
             /\ joining' = joining
             /\ reply' = Silent(s, "join_conversation", c)]_vars

\* an unknown id was joined while another conversation exists and has a viewer
C11_Witness ==
    /\ reply.event = "join_conversation"
    /\ reply.cid # None /\ ~Exists(reply.cid)
    /\ \E c \in DOMAIN active_conversations : rooms[c] # {}

C13_CreatePromptNeverRaises ==
    \A t \in ThreadIds : threads[t].prompt # UnboundLocalError

\* the fields a start_dialogue request must carry
RequiredFields ==
    {"philosopher1", "author1", "model1", "philosopher2", "author2", "model2", "topic"}

\* C14: a start_dialogue request whose config lacks a required field is
\* rejected with an error to the caller and adds no conversation: every
\* stored conversation has a config with all the required fields, and
\* dialogue_started is never the answer to a config that lacks one.
C14_StartValidatesConfig ==
    /\ \A c \in DOMAIN active_conversations :
          RequiredFields \subseteq DOMAIN active_conversations[c].config
    /\ reply.event = "dialogue_started" => RequiredFields \subseteq DOMAIN reply.config

\* the backend cannot be reached or its body cannot be used
Unusable(answer) ==
    \/ answer.raises \/ ~answer.json \/ ~answer.object
    \/ /\ "models" \in DOMAIN answer.body
       /\ \E k \in 1..Len(answer.body.models) : "name" \notin DOMAIN answer.body.models[k]

\* C15: health_check never raises and changes no state: with the backend
\* unreachable or its body unusable it answers status "unhealthy" with the
\* numbers of conversations and of connected clients; with a usable answer
\* it answers status "healthy" with the names of the models.
C15_HealthCheck ==
    [][\A answer \in TagsAnswers :
          health_check(answer)
          => /\ UNCHANGED <<active_conversations, client_sessions, rooms, threads>>
             /\ reply'.event = "health"
             /\ reply'.config.status \in {"healthy", "unhealthy"}
             /\ reply'.config.conversations = Cardinality(DOMAIN active_conversations)
             /\ reply'.config.clients = Cardinality(client_sessions)
             /\ Unusable(answer) => reply'.config.status = "unhealthy"
             /\ ~Unusable(answer)
                   => /\ reply'.config.status = "healthy"
                      /\ \A k \in 1..Len(reply'.config.models) :
                            reply'.config.models[k] = answer.body.models[k].name]_vars

\* an unhealthy answer given while a conversation and a client exist
C15_Witness ==
    /\ reply.event = "health"
    /\ reply.config.status = "unhealthy"
    /\ reply.config.conversations = 1
    /\ reply.config.clients = 2

\* C16: get_conversation_history changes no state; for a known id it sends
\* the caller that conversation's config and current history, and for an
\* unknown id it sends the caller a report that the conversation was not
\* found.
C16_GetHistory ==
    [][\A s \in Clients : \A c \in ConvIds \cup {None} :
          handle_get_history(s, c)
          => /\ UNCHANGED <<active_conversations, client_sessions, rooms, threads>>
             /\ Exists(c)
                   => reply' = Reply(s, "conversation_history", c,
                                     active_conversations[c].history,
                                     active_conversations[c].config)
             /\ ~Exists(c)
                   => /\ reply'.to = s
                      /\ reply' # Silent(s, "get_conversation_history", c)]_vars

GenerationEvents ==
    {"generation_start", "message_chunk", "generation_complete", "generation_error"}

StartOf(log, k) ==
    CHOOSE j \in 1..k :
        /\ log[j].event = "generation_start"
        /\ \A i \in (j + 1)..k : log[i].event # "generation_start"

ChunksBefore(log, k) ==
    [i \in 1..(k - StartOf(log, k) - 1) |-> log[StartOf(log, k) + i].content[1]]

C23_ConfigImmutable ==
    [][\A c \in DOMAIN active_conversations :
          /\ c \in DOMAIN active_conversations'
          /\ active_conversations'[c].id = active_conversations[c].id
          /\ active_conversations'[c].config = active_conversations[c].config
          /\ active_conversations'[c].created_at = active_conversations[c].created_at]_vars

\* two conversations created one after the other, with different configs,
\* both threads ended, and the first conversation read back
C23_Witness ==
    /\ Exists(1) /\ Exists(2)
    /\ active_conversations[1].config # active_conversations[2].config
    /\ active_conversations[1].created_at # active_conversations[2].created_at
    /\ \A t \in ThreadIds : ~Running(t)
    /\ reply.event = "conversation_history"
    /\ reply.cid = 1
    /\ reply.config = active_conversations[1].config

C26_ThreadErrorsSurfaced ==
    \A t \in ThreadIds :
        threads[t].pc = "died"
        => \E k \in 1..Len(threads[t].emitted) :
              /\ threads[t].emitted[k].event = "generation_error"
              /\ threads[t].emitted[k].room = threads[t].cid

C28_PromptEmbedsContext ==
    \A t \in ThreadIds :
        LET th == threads[t]
            conv == active_conversations[th.cid]
        IN  /\ th.prompt.template = "response"
                  => /\ th.prompt.topic = conv.config.topic
                     /\ (th.alone /\ th.pc \in {"gs_start", "gs_post", "gs_lines", "gs_store"})
                           => th.prompt.last_content
                                 = Take(Last(conv.history).content, PromptContextLen)
            /\ (th.kind = "opening" /\ conv.config = ValidConfig /\ th.pc # "prompt1")
                  => /\ th.prompt.template # "UnboundLocalError"
                     /\ (InGeneration(t) /\ th.returned = <<>>)
                           => /\ th.prompt.template = "opening"
                              /\ th.prompt.topic = conv.config.topic

\* the events of the stream that are messages, and those that are errors
SseMessages == SelectSeq(sse.stream, LAMBDA event : event.type = "message")

SseErrors == SelectSeq(sse.stream, LAMBDA event : event.type = "error")

\* C29: a /generate request that meets no failure streams exactly two
\* messages, spoken by different pairings, the first of them by pairing 1
\* when the history it was given has an even number of messages and by
\* pairing 2 when it is odd.
C29_TwoPairings ==
    (sse.pc = "done" /\ SseErrors = <<>>) =>
        /\ Len(sse.stream) = NumExchanges
        /\ sse.stream[1].pairing = (IF sse.len0 % 2 = 0 THEN 1 ELSE 2)
        /\ sse.stream[1].pairing # sse.stream[2].pairing

\* C30: a failure while a /generate request is served puts exactly one error
\* event on the stream and ends it: the error is the last event, no message
\* follows it, every turn generated before it has its message on the stream,
\* and an event once on the stream stays there.
C30_ErrorEndsStream ==
    /\ [](/\ Len(SseErrors) <= 1
          /\ Len(SseMessages) = sse.i
          /\ \A k \in 1..Len(sse.stream) :
                sse.stream[k].type = "error" =>
                    k = Len(sse.stream) /\ sse.pc = "done"
          /\ (sse.pc = "done" /\ sse.i < NumExchanges) => Len(SseErrors) = 1)
    /\ [][sse'.pc # "idle" /\ sse.pc # "idle" =>
            /\ Len(sse'.stream) >= Len(sse.stream)
            /\ Take(sse'.stream, Len(sse.stream)) = sse.stream]_vars

\* the second turn failed: the stream is the first message, then the error
C30_Witness ==
    /\ sse.pc = "done"
    /\ sse.i = 1
    /\ Len(sse.stream) = 2
    /\ sse.stream[1].type = "message"
    /\ sse.stream[2].type = "error"

\* history holds, at the position it announces, the turn that the k-th event
\* of thread t, a generation_complete, announces
HoldsTurnOf(history, t, k) ==
    /\ Len(history) >= TurnOfComplete(t, k)
    /\ history[TurnOfComplete(t, k)].speaker = threads[t].emitted[k].speaker
    /\ history[TurnOfComplete(t, k)].content = threads[t].emitted[k].content

Starts(t) ==
    IF t \in ThreadIds THEN CountEvents(threads[t].emitted, "generation_start") ELSE 0

Terminals(t) ==
    IF t \in ThreadIds
    THEN CountEvents(threads[t].emitted, "generation_complete")
            + CountEvents(threads[t].emitted, "generation_error")
    ELSE 0

\* the event that follows the k-th event of log, a generation_start, with
\* only fragments between them; 0 when there is none yet
FollowerOf(log, k) ==
    IF \E j \in (k + 1)..Len(log) : log[j].event # "message_chunk"
    THEN CHOOSE j \in (k + 1)..Len(log) :
            /\ log[j].event # "message_chunk"
            /\ \A i \in (k + 1)..(j - 1) : log[i].event = "message_chunk"
    ELSE 0

Stored(t) == Successes(t) + (IF threads[t].pc = "gs_complete" THEN 1 ELSE 0)

\* the turns the first n threads have appended to the history of cid
RECURSIVE StoredFor(_, _)
StoredFor(cid, n) ==
    IF n = 0 THEN 0
    ELSE StoredFor(cid, n - 1) + (IF threads[n].cid = cid THEN Stored(n) ELSE 0)

\* the turns conversation cid held before any thread ran
TurnsAtFirst(cid) ==
    IF cid = OngoingConversation.id THEN Len(OngoingConversation.history) ELSE 0

====
